---- MODULE Spec2Model ----
(***************************************************************************)
(* Model of the workspace-context collector of LLM Code                    *)
(* (src/main.py, get_workspace_context) on a POSIX host.                   *)
(*                                                                         *)
(* Text is a sequence of one-character strings, so that the path, glob and *)
(* line functions of the code are computed character by character.        *)
(* A file's content is the sequence of its lines.                          *)
(***************************************************************************)
EXTENDS Integers, Sequences, FiniteSets, TLC

\* ------------------------------------------------------------------------
\* Text helpers (Python str methods used by the code)
\* ------------------------------------------------------------------------

\* os.sep on a POSIX host
OsSep == "/"

Whitespace == {" ", "\n", "\t"}

UpperLetters == <<"A","B","C","D","E","F","G","H","I","J","K","L","M",
                  "N","O","P","Q","R","S","T","U","V","W","X","Y","Z">>

LowerLetters == <<"a","b","c","d","e","f","g","h","i","j","k","l","m",
                  "n","o","p","q","r","s","t","u","v","w","x","y","z">>

\* str.lower(), one character
LowerChar(c) ==
    IF \E i \in 1..26 : UpperLetters[i] = c
    THEN LowerLetters[CHOOSE i \in 1..26 : UpperLetters[i] = c]
    ELSE c

\* str.lower()
Lower(s) == [i \in 1..Len(s) |-> LowerChar(s[i])]

\* sub in s
Contains(s, sub) ==
    \E i \in 0..(Len(s) - Len(sub)) : SubSeq(s, i + 1, i + Len(sub)) = sub

\* s.startswith(pre)
StartsWith(s, pre) == Len(s) >= Len(pre) /\ SubSeq(s, 1, Len(pre)) = pre

\* s.endswith(suf)
EndsWith(s, suf) ==
    Len(s) >= Len(suf) /\ SubSeq(s, Len(s) - Len(suf) + 1, Len(s)) = suf

\* s.rstrip(chars)
RECURSIVE RStrip(_, _)
RStrip(s, chars) ==
    IF s # <<>> /\ s[Len(s)] \in chars
    THEN RStrip(SubSeq(s, 1, Len(s) - 1), chars)
    ELSE s

\* s.lstrip(chars)
RECURSIVE LStrip(_, _)
LStrip(s, chars) ==
    IF s # <<>> /\ s[1] \in chars THEN LStrip(Tail(s), chars) ELSE s

\* s.strip()
Strip(s) == LStrip(RStrip(s, Whitespace), Whitespace)

\* s.replace(a, b) for single characters
Replace(s, a, b) == [i \in 1..Len(s) |-> IF s[i] = a THEN b ELSE s[i]]

\* s.split(c): the pieces between the occurrences of c, empty ones kept
RECURSIVE Split(_, _)
Split(s, c) ==
    IF \A i \in 1..Len(s) : s[i] # c
    THEN <<s>>
    ELSE LET k == CHOOSE i \in 1..Len(s) :
                      s[i] = c /\ \A j \in 1..(i - 1) : s[j] # c
         IN  <<SubSeq(s, 1, k - 1)>> \o Split(SubSeq(s, k + 1, Len(s)), c)

\* c.join(parts)
RECURSIVE JoinWith(_, _)
JoinWith(parts, c) ==
    IF parts = <<>> THEN <<>>
    ELSE IF Len(parts) = 1 THEN parts[1]
    ELSE parts[1] \o <<c>> \o JoinWith(Tail(parts), c)

\* [x for x in parts if x]
RECURSIVE NonEmpty(_)
NonEmpty(parts) ==
    IF parts = <<>> THEN <<>>
    ELSE IF parts[1] = <<>> THEN NonEmpty(Tail(parts))
    ELSE <<parts[1]>> \o NonEmpty(Tail(parts))

Min(S) == CHOOSE x \in S : \A y \in S : x <= y

\* ------------------------------------------------------------------------
\* posixpath functions used by the code
\* ------------------------------------------------------------------------

\* os.path.join(a, b)
Join(a, b) ==
    IF StartsWith(b, <<OsSep>>) THEN b
    ELSE IF a = <<>> \/ EndsWith(a, <<OsSep>>) THEN a \o b
    ELSE a \o <<OsSep>> \o b

\* the component loop of os.path.normpath
RECURSIVE NormComps(_, _, _)
NormComps(comps, acc, rooted) ==
    IF comps = <<>> THEN acc
    ELSE LET c == comps[1]
             rest == Tail(comps)
         IN  IF c = <<>> \/ c = <<".">> THEN NormComps(rest, acc, rooted)
             ELSE IF c # <<".", ".">>
                     \/ (~rooted /\ acc = <<>>)
                     \/ (acc # <<>> /\ acc[Len(acc)] = <<".", ".">>)
                  THEN NormComps(rest, Append(acc, c), rooted)
             ELSE IF acc # <<>>
                  THEN NormComps(rest, SubSeq(acc, 1, Len(acc) - 1), rooted)
             ELSE NormComps(rest, acc, rooted)

\* os.path.normpath(p)
NormPath(p) ==
    IF p = <<>> THEN <<".">>
    ELSE LET slashes ==
                 IF ~StartsWith(p, <<OsSep>>) THEN 0
                 ELSE IF StartsWith(p, <<OsSep, OsSep>>)
                         /\ ~StartsWith(p, <<OsSep, OsSep, OsSep>>) THEN 2
                 ELSE 1
             body == JoinWith(NormComps(Split(p, OsSep), <<>>, slashes > 0), OsSep)
             res == [i \in 1..slashes |-> OsSep] \o body
         IN  IF res = <<>> THEN <<".">> ELSE res

\* os.path.abspath(p) in working directory wd
AbsPath(wd, p) ==
    NormPath(IF StartsWith(p, <<OsSep>>) THEN p ELSE Join(wd, p))

\* length of the common prefix of two component lists
RECURSIVE CommonLen(_, _)
CommonLen(a, b) ==
    IF a = <<>> \/ b = <<>> \/ a[1] # b[1] THEN 0
    ELSE 1 + CommonLen(Tail(a), Tail(b))

\* os.path.relpath as it would be if start were not made absolute
RelPath_StartNotAbsolute(wd, p, start) ==
    LET start_list == NonEmpty(Split(IF StartsWith(start, <<OsSep>>)
                                     THEN NormPath(start) ELSE start, OsSep))
        path_list == NonEmpty(Split(AbsPath(wd, p), OsSep))
        i == CommonLen(start_list, path_list)
        rel_list == [k \in 1..(Len(start_list) - i) |-> <<".", ".">>]
                    \o SubSeq(path_list, i + 1, Len(path_list))
    IN  IF rel_list = <<>> THEN <<".">> ELSE JoinWith(rel_list, OsSep)

\* os.path.relpath(p, start) in working directory wd
RelPath(wd, p, start) ==
    LET start_list == NonEmpty(Split(AbsPath(wd, start), OsSep))
        path_list == NonEmpty(Split(AbsPath(wd, p), OsSep))
        i == CommonLen(start_list, path_list)
        rel_list == [k \in 1..(Len(start_list) - i) |-> <<".", ".">>]
                    \o SubSeq(path_list, i + 1, Len(path_list))
    IN  IF rel_list = <<>> THEN <<".">> ELSE JoinWith(rel_list, OsSep)

\* os.path.basename(p)
BaseName(p) ==
    LET seps == {i \in 1..Len(p) : p[i] = OsSep}
        i == IF seps = {} THEN 0 ELSE CHOOSE k \in seps : \A m \in seps : m <= k
    IN  SubSeq(p, i + 1, Len(p))

\* ------------------------------------------------------------------------
\* fnmatch.fnmatch (glob matching: '*', '?', '[seq]', '[!seq]'); neither
\* '*' nor '?' treats the separator specially.  Character ranges ('-'
\* inside brackets) are outside the alphabet of the model.
\* ------------------------------------------------------------------------

\* index of the ']' closing the set opened by pat[j] = "[", or 0 (then the
\* bracket is an ordinary character)
SetClose(pat, j) ==
    LET a == IF j + 1 <= Len(pat) /\ pat[j + 1] = "!" THEN j + 2 ELSE j + 1
        b == IF a <= Len(pat) /\ pat[a] = "]" THEN a + 1 ELSE a
        closing == {k \in b..Len(pat) : pat[k] = "]"}
    IN  IF closing = {} THEN 0 ELSE Min(closing)

\* does character c belong to the set pat[j] .. pat[k]
InSet(c, pat, j, k) ==
    LET stuff == SubSeq(pat, j + 1, k - 1)
        negated == stuff[1] = "!"
        members == IF negated THEN Tail(stuff) ELSE stuff
        found == \E m \in 1..Len(members) : members[m] = c
    IN  IF negated THEN ~found ELSE found

RECURSIVE MatchAt(_, _, _, _)
MatchAt(name, i, pat, j) ==
    IF j > Len(pat) THEN i > Len(name)
    ELSE IF pat[j] = "*"
         THEN MatchAt(name, i, pat, j + 1)
              \/ (i <= Len(name) /\ MatchAt(name, i + 1, pat, j))
    ELSE IF pat[j] = "?"
         THEN i <= Len(name) /\ MatchAt(name, i + 1, pat, j + 1)
    ELSE IF pat[j] = "[" /\ SetClose(pat, j) # 0
         THEN i <= Len(name)
              /\ InSet(name[i], pat, j, SetClose(pat, j))
              /\ MatchAt(name, i + 1, pat, SetClose(pat, j) + 1)
    ELSE i <= Len(name) /\ name[i] = pat[j]
         /\ MatchAt(name, i + 1, pat, j + 1)

\* fnmatch.fnmatch(name, pat)
FnMatch(name, pat) == MatchAt(name, 1, pat, 1)

\* ------------------------------------------------------------------------
\* The filesystem: a tree of nodes.  A directory lists its entries in the
\* order os.scandir reports them; a file is either readable as UTF-8 text
\* (content = its lines) or not (binary, or open() fails).  Every directory
\* can be listed and there are no symbolic links.
\* ------------------------------------------------------------------------

File(name, lines) ==
    [name |-> name, kind |-> "file", readable |-> TRUE,
     content |-> lines, entries |-> <<>>]

BadFile(name) ==
    [name |-> name, kind |-> "file", readable |-> FALSE,
     content |-> <<>>, entries |-> <<>>]

Dir(name, entries) ==
    [name |-> name, kind |-> "dir", readable |-> FALSE,
     content |-> <<>>, entries |-> entries]

NoNode ==
    [name |-> <<>>, kind |-> "none", readable |-> FALSE,
     content |-> <<>>, entries |-> <<>>]

Range(f) == {f[i] : i \in DOMAIN f}

\* the node reached from node by the component list comps
RECURSIVE Lookup(_, _)
Lookup(node, comps) ==
    IF comps = <<>> THEN node
    ELSE IF node.kind = "dir" /\ \E e \in Range(node.entries) : e.name = comps[1]
    THEN Lookup(CHOOSE e \in Range(node.entries) : e.name = comps[1], Tail(comps))
    ELSE NoNode

\* the node an absolute path names in filesystem root
NodeAt(root, p) == Lookup(root, NonEmpty(Split(NormPath(p), OsSep)))

\* os.path.exists / os.path.isfile / os.path.isdir
Exists(root, p) == NodeAt(root, p).kind # "none"
IsFile(root, p) == NodeAt(root, p).kind = "file"
IsDir(root, p) == NodeAt(root, p).kind = "dir"

\* names of the entries of a directory node of one kind, in scandir order
RECURSIVE NamesOfKind(_, _)
NamesOfKind(entries, kind) ==
    IF entries = <<>> THEN <<>>
    ELSE IF entries[1].kind = kind
         THEN <<entries[1].name>> \o NamesOfKind(Tail(entries), kind)
    ELSE NamesOfKind(Tail(entries), kind)

\* ------------------------------------------------------------------------
\* get_workspace_context: the pure parts
\* ------------------------------------------------------------------------

GitignoreName == <<".", "g", "i", "t", "i", "g", "n", "o", "r", "e">>

\* the built-in substrings of the file filter
BuiltinSubstrings ==
    { <<".", "g", "i", "t">>,
      <<".", "p", "y", "c">>,
      <<".", "e", "n", "v">>,
      <<"_", "_", "p", "y", "c", "a", "c", "h", "e", "_", "_">> }

\* the list comprehension that loads the ignore patterns from the lines
RECURSIVE LoadPatterns(_)
LoadPatterns(lines) ==
    IF lines = <<>> THEN <<>>
    ELSE IF Strip(lines[1]) # <<>> /\ ~StartsWith(lines[1], <<"#">>)
         THEN <<Replace(Strip(lines[1]), "/", OsSep)>> \o LoadPatterns(Tail(lines))
    ELSE LoadPatterns(Tail(lines))

\* the directory filter as it would be with the pattern's trailing separator
\* left in place
DirIgnored_SeparatorKept(rel_root, d, patterns) ==
    \E i \in 1..Len(patterns) :
        \/ FnMatch(Join(rel_root, d), patterns[i])
        \/ FnMatch(d, patterns[i])

\* the directory filter as it would be with the relative-path test alone
DirIgnored_RelPathOnly(rel_root, d, patterns) ==
    \E i \in 1..Len(patterns) : FnMatch(Join(rel_root, d), patterns[i])

\* the directory filter: d is pruned
DirIgnored(rel_root, d, patterns) ==
    \E i \in 1..Len(patterns) :
        \/ FnMatch(Join(rel_root, d), patterns[i])
        \/ FnMatch(d, RStrip(patterns[i], {OsSep}))

\* dirs[:] = [d for d in dirs if not ...]
RECURSIVE KeepDirs(_, _, _)
KeepDirs(rel_root, dirs, patterns) ==
    IF dirs = <<>> THEN <<>>
    ELSE IF DirIgnored(rel_root, dirs[1], patterns)
         THEN KeepDirs(rel_root, Tail(dirs), patterns)
    ELSE <<dirs[1]>> \o KeepDirs(rel_root, Tail(dirs), patterns)

\* the first file filter as it would be with the built-in substrings looked
\* for in the relative path
FileIgnored_BuiltinInPath(rel_root, file, patterns) ==
    \/ \E i \in 1..Len(patterns) : FnMatch(Join(rel_root, file), patterns[i])
    \/ \E i \in 1..Len(patterns) : FnMatch(file, RStrip(patterns[i], {OsSep}))
    \/ \E b \in BuiltinSubstrings : Contains(Lower(Join(rel_root, file)), b)

\* the first file filter as it would be without lower()
FileIgnored_CaseSensitive(rel_root, file, patterns) ==
    \/ \E i \in 1..Len(patterns) : FnMatch(Join(rel_root, file), patterns[i])
    \/ \E i \in 1..Len(patterns) : FnMatch(file, RStrip(patterns[i], {OsSep}))
    \/ \E b \in BuiltinSubstrings : Contains(file, b)

\* the first file filter: relative path, bare name, built-in substrings
FileIgnored(rel_root, file, patterns) ==
    \/ \E i \in 1..Len(patterns) : FnMatch(Join(rel_root, file), patterns[i])
    \/ \E i \in 1..Len(patterns) : FnMatch(file, RStrip(patterns[i], {OsSep}))
    \/ \E b \in BuiltinSubstrings : Contains(Lower(file), b)

\* the second file filter: some component of rel_path matches a pattern
PartIgnored(rel_path, patterns) ==
    \E part \in Range(Split(rel_path, OsSep)) :
        \E i \in 1..Len(patterns) : FnMatch(part, patterns[i])

\* the results
Success(entries) == [success |-> TRUE, context |-> entries]
Failure(reason) == [success |-> FALSE, error |-> reason]
NoResult == [pending |-> TRUE]

CannotRead == "Cannot read file: binary or unreadable"

\* str(e) of the exception open() or read() raises on path p
StrError(p) == "decode or I/O error"

\* ------------------------------------------------------------------------
\* Inputs: file names, trees, .gitignore lines, path arguments
\* ------------------------------------------------------------------------

N_a_txt == <<"a", ".", "t", "x", "t">>
N_c_txt == <<"c", ".", "t", "x", "t">>
N_d_txt == <<"d", ".", "t", "x", "t">>
N_e_txt == <<"e", ".", "t", "x", "t">>
N_y_txt == <<"y", ".", "t", "x", "t">>
N_bin == <<"b", "i", "n">>
N_ENV == <<"S", ".", "E", "N", "V">>
N_config == <<"c", "f", "g">>
N_git == <<".", "g", "i", "t">>
N_b == <<"b">>
N_x == <<"x">>
N_br == <<"[", "a", "]">>
N_w == <<"w">>

Hello == <<"h", "e", "l", "l", "o">>
Text(c) == <<<<c>>>>

\* the entries of the working directory, without its .gitignore
TreeA ==
    << File(N_a_txt, <<Hello>>),
       Dir(N_b, << File(N_c_txt, Text("c")) >>) >>

TreeB ==
    << BadFile(N_bin),
       File(N_a_txt, <<Hello>>),
       File(N_ENV, Text("k")),
       Dir(N_x, << File(GitignoreName, <<N_y_txt>>),
                   File(N_y_txt, Text("y")),
                   Dir(N_b, << File(N_d_txt, Text("d")) >>) >>),
       Dir(N_br, << File(N_e_txt, Text("e")) >>),
       Dir(N_git, << File(N_config, Text("g")) >>) >>

Trees == {TreeA, TreeB}

\* a working directory whose files carry names the filters exclude
TreeC ==
    << File(N_b, Text("b")),
       File(N_ENV, Text("k")),
       Dir(N_x, << File(N_y_txt, Text("y")) >>) >>

\* lines a .gitignore is made of
LinePool ==
    { <<"b">>,
      <<"b", "/">>,
      <<"[", "a", "]">>,
      <<"x", "/", "*">>,
      <<".", "/", "a", ".", "t", "x", "t">>,
      <<"#", "b">>,
      <<" ", "#", "c", " ">> }

\* a .gitignore has at most MaxLines lines
MaxLines == 2

LineLists == UNION {[1..n -> LinePool] : n \in 0..MaxLines}

\* the .gitignore of the working directory: absent, unreadable, or lines
GitignoreEntries ==
    {<<>>, <<BadFile(GitignoreName)>>}
    \cup {<<File(GitignoreName, ls)>> : ls \in LineLists}

\* the working directory of the process
WorkDir == <<"/", "w">>

\* the filesystem whose working directory holds gi and tree
MakeFs(gi, tree) == Dir(<<>>, << Dir(N_w, gi \o tree) >>)

PathArgs ==
    { <<>>,
      <<".">>,
      <<"x">>,
      <<"x", "/">>,
      <<"/", "w", "/", "x">>,
      <<"a", ".", "t", "x", "t">>,
      <<"x", "/", "y", ".", "t", "x", "t">>,
      <<"b", "i", "n">>,
      <<"m", "i", "s", "s">> }

\* ------------------------------------------------------------------------
\* main: the values of the chat loop
\* ------------------------------------------------------------------------

\* FileEditMode.__init__ and FileEditMode.reset: file_path None is <<>>,
\* mode None is "none"
NoEdit == [active |-> FALSE, file_path |-> <<>>, content |-> <<>>, mode |-> "none"]

\* a message of the chat history; content is a text
Message(role, content) == [role |-> role, content |-> content]

\* the content of the first message; the working directory it names is fixed
SystemPrompt == <<"s", "y", "s">>

SystemMessage == Message("system", SystemPrompt)

\* ------------------------------------------------------------------------
\* State
\* ------------------------------------------------------------------------

VARIABLES
    fs,               \* the filesystem
    cwd,              \* os.getcwd()
    path,             \* the argument of get_workspace_context
    pc,               \* position in get_workspace_context
    ignore_patterns,  \* local ignore_patterns
    context,          \* local context
    full_path,        \* local full_path
    stack,            \* directories os.walk has still to visit
    root,             \* the directory os.walk yielded last
    rel_root,         \* local rel_root
    files,            \* the files of root the loop has still to visit
    result,           \* the returned dict
    calls,            \* the calls that have returned: argument and result
    messages,         \* main: the chat history
    file_edit_mode,   \* the FileEditMode object
    inputs_read,      \* main: how many lines input() has returned
    line              \* main: the line input() returned last

vars == <<fs, cwd, path, pc, ignore_patterns, context, full_path, stack,
          root, rel_root, files, result, calls,
          messages, file_edit_mode, inputs_read, line>>

Init ==
    /\ \E gi \in GitignoreEntries, tree \in Trees : fs = MakeFs(gi, tree)
    /\ cwd = WorkDir
    /\ path \in PathArgs
    /\ pc = "load"
    /\ ignore_patterns = <<>>
    /\ context = <<>>
    /\ full_path = <<>>
    /\ stack = <<>>
    /\ root = <<>>
    /\ rel_root = <<>>
    /\ files = <<>>
    /\ result = NoResult
    /\ calls = <<>>
    /\ messages = <<SystemMessage>>
    /\ file_edit_mode = NoEdit
    /\ inputs_read = 0
    /\ line = <<>>

\* ------------------------------------------------------------------------
\* get_workspace_context, step by step
\* ------------------------------------------------------------------------

\* the load as it would be if it read the .gitignore of the scanned directory
LoadIgnore_FromScannedDir ==
    /\ pc = "load"
    /\ LET gitignore_path == Join(AbsPath(cwd, Join(cwd, path)), GitignoreName)
           node == NodeAt(fs, gitignore_path)
       IN  IF ~Exists(fs, gitignore_path)
           THEN /\ ignore_patterns' = <<>>
                /\ pc' = "resolve"
                /\ result' = result
           ELSE IF node.kind = "file" /\ node.readable
           THEN /\ ignore_patterns' = LoadPatterns(node.content)
                /\ pc' = "resolve"
                /\ result' = result
           ELSE /\ ignore_patterns' = ignore_patterns
                /\ pc' = "done"
                /\ result' = Failure(StrError(gitignore_path))
    /\ UNCHANGED <<fs, cwd, path, context, full_path, stack, root, rel_root, files, calls, messages, file_edit_mode, inputs_read, line>>

\* lines 216-223: load the patterns of .gitignore in the working directory;
\* an exception of open() or of the read reaches the outer handler (270-271)
LoadIgnore ==
    /\ pc = "load"
    /\ LET gitignore_path == Join(cwd, GitignoreName)
           node == NodeAt(fs, gitignore_path)
       IN  IF ~Exists(fs, gitignore_path)
           THEN /\ ignore_patterns' = <<>>
                /\ pc' = "resolve"
                /\ result' = result
           ELSE IF node.kind = "file" /\ node.readable
           THEN /\ ignore_patterns' = LoadPatterns(node.content)
                /\ pc' = "resolve"
                /\ result' = result
           ELSE /\ ignore_patterns' = ignore_patterns
                /\ pc' = "done"
                /\ result' = Failure(StrError(gitignore_path))
    /\ UNCHANGED <<fs, cwd, path, context, full_path, stack, root, rel_root, files, calls, messages, file_edit_mode, inputs_read, line>>

\* lines 225-226 as they would be if context were a list shared by all calls
\* (a module-level list or a mutable default argument)
Resolve_SharedContext ==
    /\ pc = "resolve"
    /\ context' = IF calls # <<>> /\ calls[1].result.success
                  THEN calls[1].result.context ELSE <<>>
    /\ full_path' = AbsPath(cwd, Join(cwd, path))
    /\ pc' = "isfile"
    /\ UNCHANGED <<fs, cwd, path, ignore_patterns, stack, root, rel_root, files, result, calls, messages, file_edit_mode, inputs_read, line>>

\* lines 225-226
Resolve ==
    /\ pc = "resolve"
    /\ context' = <<>>
    /\ full_path' = AbsPath(cwd, Join(cwd, path))
    /\ pc' = "isfile"
    /\ UNCHANGED <<fs, cwd, path, ignore_patterns, stack, root, rel_root, files, result, calls, messages, file_edit_mode, inputs_read, line>>

\* lines 228-238: the single-file case
ReadSingleFile ==
    /\ pc = "isfile"
    /\ IsFile(fs, full_path)
    /\ LET node == NodeAt(fs, full_path)
       IN  IF node.readable
           THEN /\ context' = Append(context,
                        [path |-> BaseName(full_path), content |-> node.content])
                /\ result' = Success(context')
           ELSE /\ context' = context
                /\ result' = Failure(CannotRead)
    /\ pc' = "done"
    /\ UNCHANGED <<fs, cwd, path, ignore_patterns, full_path, stack, root, rel_root, files, calls, messages, file_edit_mode, inputs_read, line>>

\* line 240: os.walk(full_path) starts
StartWalk ==
    /\ pc = "isfile"
    /\ ~IsFile(fs, full_path)
    /\ stack' = <<full_path>>
    /\ pc' = "walk"
    /\ UNCHANGED <<fs, cwd, path, ignore_patterns, context, full_path, root, rel_root, files, result, calls, messages, file_edit_mode, inputs_read, line>>

\* lines 240-246: os.walk yields the next directory and the loop prunes its
\* subdirectories; a directory os.scandir cannot list is passed over
WalkDir ==
    /\ pc = "walk"
    /\ files = <<>>
    /\ stack # <<>>
    /\ LET top == Head(stack)
           node == NodeAt(fs, top)
           rel == RelPath(cwd, top, full_path)
           dirs == KeepDirs(rel, NamesOfKind(node.entries, "dir"), ignore_patterns)
       IN  IF node.kind # "dir"
           THEN /\ stack' = Tail(stack)
                /\ UNCHANGED <<root, rel_root, files>>
           ELSE /\ root' = top
                /\ rel_root' = rel
                /\ files' = NamesOfKind(node.entries, "file")
                /\ stack' = [i \in 1..Len(dirs) |-> Join(top, dirs[i])] \o Tail(stack)
    /\ UNCHANGED <<fs, cwd, path, pc, ignore_patterns, context, full_path, result, calls, messages, file_edit_mode, inputs_read, line>>

\* the loop body as it would be without the inner try: the exception of an
\* unreadable file reaches the outer handler
VisitFile_RaiseOnUnreadable ==
    /\ pc = "walk"
    /\ files # <<>>
    /\ LET file == Head(files)
           file_path == Join(root, file)
           rel_path == RelPath(cwd, file_path, path)
           node == NodeAt(fs, file_path)
       IN  IF FileIgnored(rel_root, file, ignore_patterns)
                \/ PartIgnored(rel_path, ignore_patterns)
           THEN /\ context' = context
                /\ UNCHANGED <<pc, result>>
           ELSE IF node.kind = "file" /\ node.readable
           THEN /\ context' = Append(context, [path |-> rel_path, content |-> node.content])
                /\ UNCHANGED <<pc, result>>
           ELSE /\ context' = context
                /\ pc' = "done"
                /\ result' = Failure(StrError(file_path))
    /\ files' = Tail(files)
    /\ UNCHANGED <<fs, cwd, path, ignore_patterns, full_path, stack, root, rel_root, calls, messages, file_edit_mode, inputs_read, line>>

\* the loop body as it would be if the reported path were taken relative to
\* the working directory instead of the path argument
VisitFile_RelativeToWorkDir ==
    /\ pc = "walk"
    /\ files # <<>>
    /\ LET file == Head(files)
           file_path == Join(root, file)
           rel_path == RelPath(cwd, file_path, cwd)
           node == NodeAt(fs, file_path)
       IN  IF FileIgnored(rel_root, file, ignore_patterns)
           THEN context' = context
           ELSE IF PartIgnored(rel_path, ignore_patterns)
           THEN context' = context
           ELSE IF node.kind = "file" /\ node.readable
           THEN context' = Append(context, [path |-> rel_path, content |-> node.content])
           ELSE context' = context
    /\ files' = Tail(files)
    /\ UNCHANGED <<fs, cwd, path, pc, ignore_patterns, full_path, stack, root, rel_root, result, calls, messages, file_edit_mode, inputs_read, line>>

\* lines 248-267: one iteration of the loop over the files of root
VisitFile ==
    /\ pc = "walk"
    /\ files # <<>>
    /\ LET file == Head(files)
           file_path == Join(root, file)
           rel_path == RelPath(cwd, file_path, path)
           node == NodeAt(fs, file_path)
       IN  IF FileIgnored(rel_root, file, ignore_patterns)
           THEN context' = context
           ELSE IF PartIgnored(rel_path, ignore_patterns)
           THEN context' = context
           ELSE IF node.kind = "file" /\ node.readable
           THEN context' = Append(context, [path |-> rel_path, content |-> node.content])
           ELSE context' = context
    /\ files' = Tail(files)
    /\ UNCHANGED <<fs, cwd, path, pc, ignore_patterns, full_path, stack, root, rel_root, result, calls, messages, file_edit_mode, inputs_read, line>>

\* line 269
ReturnSuccess ==
    /\ pc = "walk"
    /\ files = <<>>
    /\ stack = <<>>
    /\ result' = Success(context)
    /\ pc' = "done"
    /\ UNCHANGED <<fs, cwd, path, ignore_patterns, context, full_path, stack, root, rel_root, files, calls, messages, file_edit_mode, inputs_read, line>>

\* the caller (main, line 574) calls get_workspace_context once more, on the
\* unchanged filesystem and working directory
CallAgain ==
    /\ pc = "done"
    /\ calls = <<>>
    /\ calls' = Append(calls, [path |-> path, result |-> result])
    /\ path' \in PathArgs
    /\ pc' = "load"
    /\ ignore_patterns' = <<>>
    /\ context' = <<>>
    /\ full_path' = <<>>
    /\ stack' = <<>>
    /\ root' = <<>>
    /\ rel_root' = <<>>
    /\ files' = <<>>
    /\ result' = NoResult
    /\ UNCHANGED <<fs, cwd, messages, file_edit_mode, inputs_read, line>>

Next ==
    \/ LoadIgnore
    \/ Resolve
    \/ ReadSingleFile
    \/ StartWalk
    \/ WalkDir
    \/ VisitFile
    \/ ReturnSuccess

Spec == Init /\ [][Next]_vars

\* two consecutive calls
NextTwice == Next \/ CallAgain

SpecTwice == Init /\ [][NextTwice]_vars

\* path arguments naming the files and the directory of TreeC
SinglePathArgs == {N_b, N_ENV, N_x}

\* a call on TreeC
InitSingle ==
    /\ \E gi \in GitignoreEntries : fs = MakeFs(gi, TreeC)
    /\ cwd = WorkDir
    /\ path \in SinglePathArgs
    /\ pc = "load"
    /\ ignore_patterns = <<>>
    /\ context = <<>>
    /\ full_path = <<>>
    /\ stack = <<>>
    /\ root = <<>>
    /\ rel_root = <<>>
    /\ files = <<>>
    /\ result = NoResult
    /\ calls = <<>>
    /\ messages = <<SystemMessage>>
    /\ file_edit_mode = NoEdit
    /\ inputs_read = 0
    /\ line = <<>>

SpecSingle == InitSingle /\ [][Next]_vars

\* ------------------------------------------------------------------------
\* main: the chat loop
\* ------------------------------------------------------------------------

C_exit == <<"/", "e", "x", "i", "t">>
C_quit == <<"/", "q", "u", "i", "t">>
C_save == <<"/", "s", "a", "v", "e">>
C_cancel == <<"/", "c", "a", "n", "c", "e", "l">>
C_write == <<"/", "w", "r", "i", "t", "e", " ">>
C_append == <<"/", "a", "p", "p", "e", "n", "d", " ">>
C_context == <<"/", "c", "o", "n", "t", "e", "x", "t">>
C_hash == <<"/", "#">>

\* the commands of lines 467-533 and 606-656, which the model leaves out
OtherCommand(cmd) ==
    \/ StartsWith(cmd, <<"/", "c", "o", "n", "f", "i", "g">>)
    \/ cmd \in {<<"/", "h", "e", "l", "p">>, <<"/", "p", "w", "d">>, <<"/", "c", "w", "d">>}
    \/ StartsWith(cmd, <<"/", "c", "d", " ">>)
    \/ StartsWith(cmd, <<"/", "m", "k", "d", "i", "r", " ">>)
    \/ StartsWith(cmd, <<"/", "c", "a", "t", " ">>)
    \/ StartsWith(cmd, <<"/", "l", "s">>)
    \/ StartsWith(cmd, <<"/", "t", "r", "e", "e">>)

IsExit(cmd) == cmd \in {C_exit, C_quit}
IsWrite(cmd) == StartsWith(cmd, C_write)
IsAppend(cmd) == StartsWith(cmd, C_append)
IsContext(cmd) == StartsWith(cmd, C_context) \/ StartsWith(cmd, C_hash)

\* parts = cmd.split(maxsplit=1); parts[1] if len(parts) > 1 else "."
\* (cmd is stripped and not empty)
SplitArg(cmd) ==
    LET ws == {i \in 1..Len(cmd) : cmd[i] \in Whitespace}
    IN  IF ws = {} THEN <<".">>
        ELSE LET k == CHOOSE i \in ws : \A j \in ws : i <= j
             IN  LStrip(SubSeq(cmd, k + 1, Len(cmd)), Whitespace)

\* text.splitlines(), for texts whose only line break is "\n"
SplitLines(text) ==
    LET pieces == Split(text, "\n")
    IN  IF pieces[Len(pieces)] = <<>>
        THEN SubSeq(pieces, 1, Len(pieces) - 1)
        ELSE pieces

\* f.read() of a file node: its lines, joined
TextOf(lines) == JoinWith(lines, "\n")

\* makedirs and open(full_path, "w") below the directory node: the new node,
\* or failure when a component of the path is a file or the target is a
\* directory. A created entry is listed last in its directory.
RECURSIVE PutIn(_, _, _)
PutIn(node, comps, lines) ==
    IF node.kind # "dir" \/ comps = <<>>
    THEN [ok |-> FALSE, node |-> node]
    ELSE
      LET idx == {i \in 1..Len(node.entries) : node.entries[i].name = comps[1]}
          i == IF idx = {} THEN Len(node.entries) + 1 ELSE CHOOSE j \in idx : TRUE
          old == IF idx = {} THEN Dir(comps[1], <<>>) ELSE node.entries[i]
          put(e) == [node EXCEPT !.entries =
                        IF idx = {} THEN Append(@, e) ELSE [@ EXCEPT ![i] = e]]
      IN  IF Len(comps) = 1
          THEN IF idx # {} /\ old.kind = "dir"
               THEN [ok |-> FALSE, node |-> node]
               ELSE [ok |-> TRUE, node |-> put(File(comps[1], lines))]
          ELSE LET r == PutIn(old, Tail(comps), lines)
               IN  IF r.ok
                   THEN [ok |-> TRUE, node |-> put(r.node)]
                   ELSE [ok |-> FALSE, node |-> node]

\* write_file: the result and the filesystem it leaves
WriteFile(root_node, wd, file_path, content) ==
    LET full == AbsPath(wd, Join(wd, file_path))
        r == PutIn(root_node, NonEmpty(Split(full, OsSep)), SplitLines(content))
    IN  [success |-> r.ok, fs |-> r.node]

\* read_file
ReadFile(root_node, wd, file_path) ==
    LET node == NodeAt(root_node, AbsPath(wd, Join(wd, file_path)))
    IN  IF node.kind = "file" /\ node.readable
        THEN [success |-> TRUE, content |-> TextOf(node.content)]
        ELSE [success |-> FALSE, content |-> <<>>]

FilesHeader(p) ==
    <<"H", "e", "r", "e", " ", "a", "r", "e", " ", "t", "h", "e", " ", "f",
      "i", "l", "e", "s", " ", "i", "n", " ", "t", "h", "e", " ", "w",
      "o", "r", "k", "s", "p", "a", "c", "e", " ", "(">> \o p \o <<")", ":", "\n", "\n">>

\* the code fence: three backquotes, each written "~" here (a TLA+ string
\* cannot hold a backquote)
Fence == <<"~", "~", "~">>

\* the f-string of line 591: "File: ", the path, a line break, the fence, a
\* line break, the content, a line break, the fence, two line breaks
FileBlock(entry) ==
    <<"F", "i", "l", "e", ":", " ">> \o entry.path \o <<"\n">> \o Fence \o <<"\n">>
        \o TextOf(entry.content) \o <<"\n">> \o Fence \o <<"\n", "\n">>

RECURSIVE FileBlocks(_)
FileBlocks(entries) ==
    IF entries = <<>> THEN <<>>
    ELSE FileBlock(entries[1]) \o FileBlocks(Tail(entries))

ContextIntro ==
    <<"H", "e", "r", "e", "'", "s", " ", "t", "h", "e", " ", "c", "u", "r",
      "r", "e", "n", "t", " ", "w", "o", "r", "k", "s", "p", "a", "c",
      "e", " ", "c", "o", "n", "t", "e", "x", "t", ":", "\n">>

Acknowledgment ==
    <<"I", "'", "v", "e", " ", "r", "e", "c", "e", "i", "v", "e", "d", " ",
      "a", "n", "d", " ", "u", "n", "d", "e", "r", "s", "t", "o", "o",
      "d", " ", "t", "h", "e", " ", "w", "o", "r", "k", "s", "p", "a",
      "c", "e", " ", "c", "o", "n", "t", "e", "x", "t", ".", " ", "I",
      "'", "l", "l", " ", "u", "s", "e", " ", "t", "h", "i", "s", " ",
      "i", "n", "f", "o", "r", "m", "a", "t", "i", "o", "n", " ", "t",
      "o", " ", "p", "r", "o", "v", "i", "d", "e", " ", "b", "e", "t",
      "t", "e", "r", " ", "a", "s", "s", "i", "s", "t", "a", "n", "c",
      "e", ".">>

\* the lines typed at the prompt
InputLines ==
    { C_hash,
      <<"/", "c", "o", "n", "t", "e", "x", "t", " ", "a", ".", "t", "x", "t">>,
      <<"/", "w", "r", "i", "t", "e", " ", "q">>,
      <<"/", "w", "r", "i", "t", "e", " ", "b">>,
      <<"/", "a", "p", "p", "e", "n", "d", " ", "a", ".", "t", "x", "t">>,
      <<"/", "a", "p", "p", "e", "n", "d", " ", "q">>,
      <<" ", "/", "s", "a", "v", "e", " ">>,
      C_cancel,
      C_exit,
      <<" ", "h", "i", " ">> }

\* what the assistant answers
Replies == {<<"o", "k">>}

\* the session reads at most MaxInputs lines
MaxInputs == 3

\* a .gitignore that excludes every name
StarPatterns == <<File(GitignoreName, <<<<"*">>>>)>>

\* main enters its loop (line 388, an API key being configured) in a working
\* directory holding TreeA
InitRepl ==
    /\ fs \in {MakeFs(<<>>, TreeA), MakeFs(<<BadFile(GitignoreName)>>, TreeA),
               MakeFs(StarPatterns, TreeA)}
    /\ cwd = WorkDir
    /\ pc = "prompt"
    /\ path = <<>>
    /\ ignore_patterns = <<>>
    /\ context = <<>>
    /\ full_path = <<>>
    /\ stack = <<>>
    /\ root = <<>>
    /\ rel_root = <<>>
    /\ files = <<>>
    /\ result = NoResult
    /\ calls = <<>>
    /\ messages = <<SystemMessage>>
    /\ file_edit_mode = NoEdit
    /\ inputs_read = 0
    /\ line = <<>>

\* input() returns a line
CanRead == pc = "prompt" /\ inputs_read < MaxInputs

\* lines 397-399: input() raises EOFError or KeyboardInterrupt
Eof ==
    /\ pc = "prompt"
    /\ pc' = "exited"
    /\ UNCHANGED <<fs, cwd, path, ignore_patterns, context, full_path, stack, root, rel_root, files, result, calls, messages, file_edit_mode, inputs_read, line>>

\* lines 401-418 as they would be if /exit and /quit were looked for before
\* the edit mode
EditLine_ExitLeaves ==
    /\ CanRead
    /\ file_edit_mode.active
    /\ \E l \in InputLines :
         /\ line' = l
         /\ IF IsExit(Strip(l))
           THEN /\ pc' = "exited"
                /\ UNCHANGED <<fs, file_edit_mode>>
           ELSE IF Strip(l) = C_save
           THEN /\ fs' = WriteFile(fs, cwd, file_edit_mode.file_path,
                                   JoinWith(file_edit_mode.content, "\n")).fs
                /\ file_edit_mode' = NoEdit
                /\ pc' = pc
           ELSE IF Strip(l) = C_cancel
           THEN /\ fs' = fs
                /\ file_edit_mode' = NoEdit
                /\ pc' = pc
           ELSE /\ fs' = fs
                /\ file_edit_mode' = [file_edit_mode EXCEPT !.content = Append(@, l)]
                /\ pc' = pc
    /\ inputs_read' = inputs_read + 1
    /\ UNCHANGED <<cwd, path, ignore_patterns, context, full_path, stack, root, rel_root, files, result, calls, messages>>

\* lines 401-418: a line read while the edit mode is active
EditLine ==
    /\ CanRead
    /\ file_edit_mode.active
    /\ \E l \in InputLines :
         /\ line' = l
         /\ IF Strip(l) = C_save
           THEN /\ fs' = WriteFile(fs, cwd, file_edit_mode.file_path,
                                   JoinWith(file_edit_mode.content, "\n")).fs
                /\ file_edit_mode' = NoEdit
           ELSE IF Strip(l) = C_cancel
           THEN /\ fs' = fs
                /\ file_edit_mode' = NoEdit
           ELSE /\ fs' = fs
                /\ file_edit_mode' = [file_edit_mode EXCEPT !.content = Append(@, l)]
    /\ inputs_read' = inputs_read + 1
    /\ UNCHANGED <<cwd, path, pc, ignore_patterns, context, full_path, stack, root, rel_root, files, result, calls, messages>>

\* lines 423-425
CmdExit ==
    /\ CanRead
    /\ ~file_edit_mode.active
    /\ \E l \in InputLines : IsExit(Strip(l)) /\ line' = l
    /\ pc' = "exited"
    /\ inputs_read' = inputs_read + 1
    /\ UNCHANGED <<fs, cwd, path, ignore_patterns, context, full_path, stack, root, rel_root, files, result, calls, messages, file_edit_mode>>

\* lines 545-553
CmdWrite ==
    /\ CanRead
    /\ ~file_edit_mode.active
    /\ \E l \in InputLines :
         /\ line' = l
         /\ LET cmd == Strip(l)
           IN  /\ ~IsExit(cmd) /\ ~OtherCommand(cmd)
               /\ IsWrite(cmd)
               /\ file_edit_mode' =
                      [active |-> TRUE,
                       file_path |-> Strip(SubSeq(cmd, 8, Len(cmd))),
                       content |-> <<>>,
                       mode |-> "create"]
    /\ inputs_read' = inputs_read + 1
    /\ UNCHANGED <<fs, cwd, path, pc, ignore_patterns, context, full_path, stack, root, rel_root, files, result, calls, messages>>

\* lines 555-567
CmdAppend ==
    /\ CanRead
    /\ ~file_edit_mode.active
    /\ \E l \in InputLines :
         /\ line' = l
         /\ LET cmd == Strip(l)
               file_arg == Strip(SubSeq(cmd, 9, Len(cmd)))
               r == ReadFile(fs, cwd, file_arg)
           IN  /\ ~IsExit(cmd) /\ ~OtherCommand(cmd) /\ ~IsWrite(cmd)
               /\ IsAppend(cmd)
               /\ file_edit_mode' =
                      IF r.success
                      THEN [active |-> TRUE,
                            file_path |-> file_arg,
                            content |-> SplitLines(r.content),
                            mode |-> "append"]
                      ELSE file_edit_mode
    /\ inputs_read' = inputs_read + 1
    /\ UNCHANGED <<fs, cwd, path, pc, ignore_patterns, context, full_path, stack, root, rel_root, files, result, calls, messages>>

\* lines 570-574: /context or /# calls get_workspace_context(path)
CmdContext ==
    /\ CanRead
    /\ ~file_edit_mode.active
    /\ \E l \in InputLines :
         /\ line' = l
         /\ LET cmd == Strip(l)
           IN  /\ ~IsExit(cmd) /\ ~OtherCommand(cmd) /\ ~IsWrite(cmd) /\ ~IsAppend(cmd)
               /\ IsContext(cmd)
               /\ path' = SplitArg(cmd)
    /\ pc' = "load"
    /\ ignore_patterns' = <<>>
    /\ context' = <<>>
    /\ full_path' = <<>>
    /\ stack' = <<>>
    /\ root' = <<>>
    /\ rel_root' = <<>>
    /\ files' = <<>>
    /\ result' = NoResult
    /\ inputs_read' = inputs_read + 1
    /\ UNCHANGED <<fs, cwd, calls, messages, file_edit_mode>>

\* lines 575-604 as they would be if nothing were added to the history when
\* no file was found
ContextReturn_SkipEmpty ==
    /\ pc = "done"
    /\ messages' =
           IF result.success /\ result.context # <<>>
           THEN messages \o
                << Message("user", ContextIntro \o FilesHeader(path)
                                       \o FileBlocks(result.context)),
                   Message("assistant", Acknowledgment) >>
           ELSE messages
    /\ pc' = "prompt"
    /\ ignore_patterns' = <<>>
    /\ context' = <<>>
    /\ full_path' = <<>>
    /\ stack' = <<>>
    /\ root' = <<>>
    /\ rel_root' = <<>>
    /\ files' = <<>>
    /\ result' = NoResult
    /\ UNCHANGED <<fs, cwd, path, calls, file_edit_mode, inputs_read, line>>

\* lines 575-604: get_workspace_context has returned; the locals of the call
\* are gone and result is not read again
ContextReturn ==
    /\ pc = "done"
    /\ messages' =
           IF result.success
           THEN messages \o
                << Message("user", ContextIntro \o FilesHeader(path)
                                       \o FileBlocks(result.context)),
                   Message("assistant", Acknowledgment) >>
           ELSE messages
    /\ pc' = "prompt"
    /\ ignore_patterns' = <<>>
    /\ context' = <<>>
    /\ full_path' = <<>>
    /\ stack' = <<>>
    /\ root' = <<>>
    /\ rel_root' = <<>>
    /\ files' = <<>>
    /\ result' = NoResult
    /\ UNCHANGED <<fs, cwd, path, calls, file_edit_mode, inputs_read, line>>

\* lines 810-817: any other line goes to the assistant; call_api answers or
\* fails
Chat ==
    /\ CanRead
    /\ ~file_edit_mode.active
    /\ \E l \in InputLines :
         /\ line' = l
         /\ LET cmd == Strip(l)
           IN  /\ ~IsExit(cmd) /\ ~OtherCommand(cmd) /\ ~IsWrite(cmd) /\ ~IsAppend(cmd)
               /\ ~IsContext(cmd)
               /\ \/ \E reply \in Replies :
                         messages' = messages \o << Message("user", cmd),
                                                    Message("assistant", reply) >>
                  \/ messages' = Append(messages, Message("user", cmd))
    /\ inputs_read' = inputs_read + 1
    /\ UNCHANGED <<fs, cwd, path, pc, ignore_patterns, context, full_path, stack, root, rel_root, files, result, calls, file_edit_mode>>

NextRepl ==
    \/ Eof
    \/ EditLine
    \/ CmdExit
    \/ CmdWrite
    \/ CmdAppend
    \/ CmdContext
    \/ LoadIgnore
    \/ Resolve
    \/ ReadSingleFile
    \/ StartWalk
    \/ WalkDir
    \/ VisitFile
    \/ ReturnSuccess
    \/ ContextReturn
    \/ Chat

SpecRepl == InitRepl /\ [][NextRepl]_vars

\* ------------------------------------------------------------------------
\* Vocabulary of the properties
\* ------------------------------------------------------------------------

\* what the path argument names
Target == AbsPath(cwd, path)
TargetNode == NodeAt(fs, Target)

\* the .gitignore directly under the working directory
RootGitignore == NodeAt(fs, Join(cwd, GitignoreName))

\* the call has entered the directory walk (line 240) on a directory
InDirMode == full_path # <<>> /\ IsDir(fs, full_path)

Returned == pc = "done"

\* every file below a directory node, with its components relative to it
RECURSIVE FilesUnder(_, _)
FilesUnder(node, prefix) ==
    UNION { IF e.kind = "file"
            THEN {[comps |-> Append(prefix, e.name), node |-> e]}
            ELSE FilesUnder(e, Append(prefix, e.name)) : e \in Range(node.entries) }

\* every directory below a directory node, with its components relative to it
RECURSIVE DirsUnder(_, _)
DirsUnder(node, prefix) ==
    UNION { IF e.kind = "dir"
            THEN {[comps |-> Append(prefix, e.name), node |-> e]}
                 \cup DirsUnder(e, Append(prefix, e.name))
            ELSE {} : e \in Range(node.entries) }

IsPrefix(a, b) == Len(a) <= Len(b) /\ SubSeq(b, 1, Len(a)) = a

RelText(comps) == JoinWith(comps, OsSep)

HasBuiltin(name) == \E b \in BuiltinSubstrings : Contains(Lower(name), b)

EntryPaths(entries) == {entries[i].path : i \in 1..Len(entries)}

NoDuplicates(entries) ==
    \A i, j \in 1..Len(entries) : entries[i].path = entries[j].path => i = j

\* the entry a readable file f below the scanned directory is reported as
EntryOf(f) == [path |-> RelText(f.comps), content |-> f.node.content]

\* the rel_root the walk computes for the directory holding comps
RelRootOf(comps) ==
    IF Len(comps) = 1 THEN <<".">> ELSE RelText(SubSeq(comps, 1, Len(comps) - 1))

\* file f below the scanned directory passes every exclusion rule under the
\* given patterns, and so does every directory between the two
EligibleUnder(f, patterns) ==
    /\ ~FileIgnored(RelRootOf(f.comps), f.node.name, patterns)
    /\ ~PartIgnored(RelText(f.comps), patterns)
    /\ \A k \in 1..(Len(f.comps) - 1) :
           ~DirIgnored(RelRootOf(SubSeq(f.comps, 1, k)), f.comps[k], patterns)

\* ------------------------------------------------------------------------
\* C1
\* ------------------------------------------------------------------------

\* C1 (as claimed): a call whose path argument names nothing that exists
\* returns Failure, never Success.
C1_NonexistentPathFails ==
    (Returned /\ ~Exists(fs, Target)) => ~result.success

\* ------------------------------------------------------------------------
\* C2
\* ------------------------------------------------------------------------

\* some loaded pattern is the name, with or without a trailing separator
NamedByPattern(name) ==
    \E i \in 1..Len(ignore_patterns) :
        ignore_patterns[i] \in {name, name \o <<OsSep>>}

\* directory d (relative components) is never walked and nothing below it
\* is collected
NeverEntered(d) ==
    /\ \A q \in Range(stack) \cup {root} :
           ~IsPrefix(NonEmpty(Split(Target, OsSep)) \o d.comps,
                     NonEmpty(Split(q, OsSep)))
    /\ \A i \in 1..Len(context) :
           ~IsPrefix(d.comps, Split(context[i].path, OsSep))

\* C2 (as claimed): in directory mode every subdirectory, at any depth,
\* whose bare name equals a loaded pattern (with or without a trailing
\* separator) is pruned before descent and no file beneath it is collected.
C2_NamedDirPruned ==
    InDirMode =>
        \A d \in DirsUnder(TargetNode, <<>>) :
            NamedByPattern(d.node.name) => NeverEntered(d)

\* C2 (amended): the same for every such subdirectory whose name contains
\* no '[' (a name with a bracket expression does not match itself as a
\* glob pattern).
C2_NamedDirPrunedUnlessBracket ==
    InDirMode =>
        \A d \in DirsUnder(TargetNode, <<>>) :
            (NamedByPattern(d.node.name) /\ ~Contains(d.node.name, <<"[">>))
                => NeverEntered(d)

\* C2 witness: the walk has returned entries while a directory two levels
\* down, holding a file, was named by a pattern.
C2_Witness ==
    /\ Returned /\ InDirMode /\ result.success /\ result.context # <<>>
    /\ \E d \in DirsUnder(TargetNode, <<>>) :
           /\ Len(d.comps) = 2
           /\ NamedByPattern(d.node.name)
           /\ FilesUnder(d.node, <<>>) # {}

\* ------------------------------------------------------------------------
\* C3
\* ------------------------------------------------------------------------

\* C3: with no .gitignore in the working directory, a directory-mode call
\* returns exactly one entry for every readable file below the scanned
\* directory, at every depth, whose own name holds no built-in substring.
C3_AllFilesWithoutGitignore ==
    (Returned /\ InDirMode /\ RootGitignore.kind = "none") =>
        /\ result.success
        /\ NoDuplicates(result.context)
        /\ Range(result.context) =
               { EntryOf(f) : f \in { g \in FilesUnder(TargetNode, <<>>) :
                                        g.node.readable /\ ~HasBuiltin(g.node.name) } }

\* C3 witness: such a call has returned a file that lies inside .git, and
\* has left out a file for its built-in substring and one for being binary.
C3_Witness ==
    /\ Returned /\ InDirMode /\ RootGitignore.kind = "none"
    /\ \E i \in 1..Len(result.context) :
           Split(result.context[i].path, OsSep) = <<N_git, N_config>>
    /\ \E f \in FilesUnder(TargetNode, <<>>) : f.node.readable /\ HasBuiltin(f.node.name)
    /\ \E f \in FilesUnder(TargetNode, <<>>) : ~f.node.readable

\* ------------------------------------------------------------------------
\* C4
\* ------------------------------------------------------------------------

\* C4 (as claimed): a call fails only when its path argument names nothing
\* or names a single file that cannot be read; on an existing directory it
\* succeeds, whatever the state of .gitignore.
C4_FailureOnlyForTwoCases ==
    Returned =>
        /\ IsDir(fs, Target) => result.success
        /\ ~result.success =>
               \/ ~Exists(fs, Target)
               \/ (IsFile(fs, Target) /\ ~TargetNode.readable)

\* ------------------------------------------------------------------------
\* C5
\* ------------------------------------------------------------------------

\* file f below the scanned directory passes every exclusion rule
Eligible(f) == EligibleUnder(f, ignore_patterns)

Unreadable(f) == ~f.node.readable

\* C5: when the walked tree holds a file that cannot be read, the call still
\* succeeds, reports no unreadable file and reports every readable file that
\* passes the exclusion rules.
C5_UnreadableFileSkipped ==
    (Returned /\ InDirMode
        /\ \E f \in FilesUnder(TargetNode, <<>>) : Unreadable(f)) =>
        /\ result.success
        /\ \A f \in FilesUnder(TargetNode, <<>>) :
               /\ Unreadable(f) => RelText(f.comps) \notin EntryPaths(result.context)
               /\ (~Unreadable(f) /\ Eligible(f)) => EntryOf(f) \in Range(result.context)

\* C5 witness: the walk has opened an unreadable file first and has returned
\* a file it visited afterwards.
C5_Witness ==
    /\ Returned /\ InDirMode /\ result.success
    /\ TargetNode.entries # <<>>
    /\ \E k \in 1..Len(TargetNode.entries) :
           /\ ~TargetNode.entries[k].readable
           /\ TargetNode.entries[k].kind = "file"
           /\ ~FileIgnored(<<".">>, TargetNode.entries[k].name, ignore_patterns)
           /\ \E m \in (k + 1)..Len(TargetNode.entries) :
                  TargetNode.entries[m].name \in EntryPaths(result.context)

\* ------------------------------------------------------------------------
\* C6, C7
\* ------------------------------------------------------------------------

\* C6 (as claimed): a path argument naming a readable regular file yields
\* Success with exactly one entry: the file's base name and its full text.
C6_SingleFileOneEntry ==
    (Returned /\ IsFile(fs, Target) /\ TargetNode.readable) =>
        result = Success(<<[path |-> TargetNode.name, content |-> TargetNode.content]>>)

\* C7 (as claimed): a path argument naming a regular file that cannot be
\* read yields Failure with exactly the fixed reason, and no entries.
C7_UnreadableSingleFileFails ==
    (Returned /\ IsFile(fs, Target) /\ ~TargetNode.readable) =>
        result = Failure(CannotRead)

\* ------------------------------------------------------------------------
\* C8
\* ------------------------------------------------------------------------

\* the file name of an entry: the last component of its path
EntryName(e) == BaseName(e.path)

\* entry e passes every exclusion test against the loaded patterns
PassesAllTests(e) ==
    /\ ~HasBuiltin(EntryName(e))
    /\ \A i \in 1..Len(ignore_patterns) :
           /\ ~FnMatch(e.path, ignore_patterns[i])
           /\ ~FnMatch(EntryName(e), RStrip(ignore_patterns[i], {OsSep}))
           /\ \A part \in Range(Split(e.path, OsSep)) :
                  ~FnMatch(part, ignore_patterns[i])

\* C8: every entry collected in directory mode has a file name without any
\* built-in substring (case-insensitively), and neither its path relative to
\* the scanned directory, nor its bare name (patterns stripped of trailing
\* separators), nor any component of its path matches a loaded pattern.
C8_EntriesPassAllTests ==
    InDirMode => \A i \in 1..Len(context) : PassesAllTests(context[i])

\* C8 witness: a directory-mode call with loaded patterns has returned
\* entries and has left out a readable file whose relative path matches a
\* pattern, and one whose name holds a built-in substring in upper case.
C8_Witness ==
    /\ Returned /\ InDirMode /\ result.success
    /\ result.context # <<>>
    /\ ignore_patterns # <<>>
    /\ \E f \in FilesUnder(TargetNode, <<>>) :
           /\ f.node.readable
           /\ ~HasBuiltin(f.node.name)
           /\ \E i \in 1..Len(ignore_patterns) : FnMatch(RelText(f.comps), ignore_patterns[i])
           /\ RelText(f.comps) \notin EntryPaths(result.context)
    /\ \E f \in FilesUnder(TargetNode, <<>>) :
           /\ f.node.readable
           /\ HasBuiltin(f.node.name)
           /\ \A b \in BuiltinSubstrings : ~Contains(f.node.name, b)

\* ------------------------------------------------------------------------
\* C9
\* ------------------------------------------------------------------------

\* C9: of two calls on the same filesystem and working directory, one with
\* the empty path argument and one with ".", the results are equal.
C9_EmptyPathIsCurrentDir ==
    (Returned /\ calls # <<>> /\ {calls[1].path, path} = {<<>>, <<".">>}) =>
        result = calls[1].result

\* C9 witness: the call with "" has returned entries and the call with "."
\* has returned after it.
C9_Witness ==
    /\ Returned /\ calls # <<>>
    /\ calls[1].path = <<>> /\ path = <<".">>
    /\ calls[1].result.success
    /\ Len(calls[1].result.context) >= 2

\* ------------------------------------------------------------------------
\* C10
\* ------------------------------------------------------------------------

\* the patterns of the .gitignore directly under the working directory
RootPatterns ==
    IF RootGitignore.kind = "none" THEN <<>> ELSE LoadPatterns(RootGitignore.content)

\* C10: once the load has succeeded, the rule set is the one of the
\* .gitignore directly under the working directory (empty when there is
\* none), also when the scanned directory is a subdirectory with a
\* .gitignore of its own; the entries returned are those the patterns of the
\* working directory admit; and a call without .gitignore in the working
\* directory fails only on a single file that cannot be read.
C10_RulesFromWorkingDirOnly ==
    /\ pc \in {"resolve", "isfile", "walk"} => ignore_patterns = RootPatterns
    /\ (Returned /\ InDirMode) =>
           /\ ignore_patterns = RootPatterns
           /\ Range(result.context) =
                  { EntryOf(f) : f \in { g \in FilesUnder(TargetNode, <<>>) :
                                           g.node.readable /\ EligibleUnder(g, RootPatterns) } }
    /\ (Returned /\ RootGitignore.kind = "none" /\ ~result.success) =>
           /\ IsFile(fs, Target)
           /\ result.error = CannotRead

\* C10 witness: the scanned directory is a subdirectory whose own
\* .gitignore names a file that has been returned, while a pattern of the
\* working directory's .gitignore has excluded another file of it.
C10_Witness ==
    /\ Returned /\ InDirMode /\ result.success
    /\ Target # cwd
    /\ RootPatterns # <<>>
    /\ \E g \in Range(TargetNode.entries) :
           /\ g.name = GitignoreName /\ g.kind = "file" /\ g.readable
           /\ \E i \in 1..Len(result.context) :
                  \E p \in Range(LoadPatterns(g.content)) :
                      FnMatch(result.context[i].path, p)
    /\ \E f \in FilesUnder(TargetNode, <<>>) :
           f.node.readable /\ ~HasBuiltin(f.node.name) /\ ~EligibleUnder(f, RootPatterns)

\* ------------------------------------------------------------------------
\* C11
\* ------------------------------------------------------------------------

\* a blank line, and a comment line (one starting with '#')
IsBlank(l) == \A i \in 1..Len(l) : l[i] \in Whitespace
IsComment(l) == l # <<>> /\ l[1] = "#"

\* one trimmed pattern per line that is neither blank nor a comment, in
\* file order
RECURSIVE PatternLines(_)
PatternLines(lines) ==
    IF lines = <<>> THEN <<>>
    ELSE IF IsBlank(lines[1]) \/ IsComment(lines[1]) THEN PatternLines(Tail(lines))
    ELSE <<Replace(Strip(lines[1]), "/", OsSep)>> \o PatternLines(Tail(lines))

\* C11 (as claimed): the loaded rule set is, in file order, one pattern per
\* non-blank, non-comment line of .gitignore, trimmed and with '/' replaced
\* by the separator; so no loaded pattern is empty, starts or ends with
\* whitespace, or begins with '#'.
C11_LoadedRuleSet ==
    (pc \in {"resolve", "isfile", "walk"} /\ RootGitignore.kind = "file") =>
        /\ ignore_patterns = PatternLines(RootGitignore.content)
        /\ \A i \in 1..Len(ignore_patterns) :
               LET p == ignore_patterns[i]
               IN  /\ p # <<>>
                   /\ p[1] \notin Whitespace
                   /\ p[Len(p)] \notin Whitespace
                   /\ p[1] # "#"

\* ------------------------------------------------------------------------
\* C12
\* ------------------------------------------------------------------------

\* C12: in directory mode every entry's path is the path of a file below
\* the directory the path argument names, relative to that directory: its
\* components joined by the separator, with no leading "./", no ".." and no
\* prefix of the path argument or of the absolute directory; its content is
\* that file's.
C12_PathsRelativeToPathArg ==
    InDirMode =>
        \A i \in 1..Len(context) :
            /\ \E f \in FilesUnder(TargetNode, <<>>) : context[i] = EntryOf(f)
            /\ ~StartsWith(context[i].path, <<".", OsSep>>)
            /\ ~StartsWith(context[i].path, <<OsSep>>)
            /\ NodeAt(fs, Join(Target, context[i].path)).content = context[i].content

\* C12 witness: a call on a subdirectory has returned a file of it under
\* its bare name and a file one level further down under a two-component
\* path.
C12_Witness ==
    /\ Returned /\ InDirMode /\ result.success
    /\ Target # cwd
    /\ \E i \in 1..Len(result.context) : Len(Split(result.context[i].path, OsSep)) = 1
    /\ \E i \in 1..Len(result.context) : Len(Split(result.context[i].path, OsSep)) = 2

\* ------------------------------------------------------------------------
\* C13
\* ------------------------------------------------------------------------

Reached(f, patterns) ==
    \A k \in 1..(Len(f.comps) - 1) :
        ~DirIgnored(RelRootOf(SubSeq(f.comps, 1, k)), f.comps[k], patterns)

\* file f is excluded by the per-component match and by nothing else
ComponentMatchDecides(f, patterns) ==
    /\ Reached(f, patterns)
    /\ ~FileIgnored(RelRootOf(f.comps), f.node.name, patterns)
    /\ PartIgnored(RelText(f.comps), patterns)

\* the working directory of a tree and every directory below it
ScannedDirs(tree) ==
    {Dir(N_w, tree)} \cup {d.node : d \in DirsUnder(Dir(N_w, tree), <<>>)}

\* C15 (as claimed): there is a directory tree and a set of ignore patterns
\* for which some file passes directory pruning, the relative-path match, the
\* bare-name match and the built-in substring check and is excluded by the
\* per-component match alone.
C15_ComponentMatchNotRedundant ==
    \E tree \in Trees, lines \in LineLists :
        \E t \in ScannedDirs(tree) :
            \E f \in FilesUnder(t, <<>>) :
                ComponentMatchDecides(f, LoadPatterns(lines))

\* C15 (amended): the per-component match is redundant: a file the walk
\* reaches that passes the relative-path match, the bare-name match and the
\* built-in substring check passes the per-component match too.
C15_ComponentMatchRedundant ==
    (pc = "walk" /\ files # <<>>
        /\ ~FileIgnored(rel_root, Head(files), ignore_patterns)) =>
        ~PartIgnored(RelPath(cwd, Join(root, Head(files)), path), ignore_patterns)

\* C15 witness: with a pattern loaded that prunes a directory of the scanned
\* tree, the walk is at a file nested below the scanned directory that has
\* passed the first filter.
C15_Witness ==
    /\ pc = "walk" /\ files # <<>>
    /\ ~FileIgnored(rel_root, Head(files), ignore_patterns)
    /\ Len(Split(RelPath(cwd, Join(root, Head(files)), path), OsSep)) >= 2
    /\ \E d \in DirsUnder(TargetNode, <<>>) :
           /\ Reached(d, ignore_patterns)
           /\ DirIgnored(RelRootOf(d.comps), d.node.name, ignore_patterns)

\* ------------------------------------------------------------------------
\* C16
\* ------------------------------------------------------------------------

\* file f below the scanned directory passes the rules as the claim states
\* them, relative paths taken without a "./" prefix
PassesStatedRules(f, patterns) ==
    /\ ~HasBuiltin(f.node.name)
    /\ \A i \in 1..Len(patterns) :
           /\ ~FnMatch(RelText(f.comps), patterns[i])
           /\ ~FnMatch(f.node.name, RStrip(patterns[i], {OsSep}))
           /\ \A k \in 1..Len(f.comps) : ~FnMatch(f.comps[k], patterns[i])
           /\ \A k \in 1..(Len(f.comps) - 1) :
                  /\ ~FnMatch(RelText(SubSeq(f.comps, 1, k)), patterns[i])
                  /\ ~FnMatch(f.comps[k], RStrip(patterns[i], {OsSep}))

\* C16 (as claimed): in directory mode every readable file that passes the
\* stated rules (no built-in substring in its name, no pattern matching its
\* relative path, its bare name or a component, no ancestor directory
\* matching a pattern by relative path or bare name) is collected.
C16_NothingBeyondStatedRules ==
    (Returned /\ InDirMode) =>
        \A f \in FilesUnder(TargetNode, <<>>) :
            (f.node.readable /\ PassesStatedRules(f, ignore_patterns)) =>
                EntryOf(f) \in Range(result.context)

\* ------------------------------------------------------------------------
\* C17
\* ------------------------------------------------------------------------

\* the directory-mode filter would exclude a file of this name: it holds a
\* built-in substring, or a pattern line of the .gitignore matches it
NameExcluded(name) ==
    \/ HasBuiltin(name)
    \/ /\ RootGitignore.kind = "file" /\ RootGitignore.readable
       /\ FileIgnored(<<".">>, name, LoadPatterns(RootGitignore.content))

\* C17 (as claimed): a path argument naming a readable regular file yields
\* the file's content as the single entry even when the file's name matches
\* an ignore pattern or holds a built-in excluded substring.
C17_SingleFileUnfiltered ==
    (Returned /\ IsFile(fs, Target) /\ TargetNode.readable
        /\ NameExcluded(TargetNode.name)) =>
        /\ result.success
        /\ Len(result.context) = 1
        /\ result.context[1].content = TargetNode.content

\* ------------------------------------------------------------------------
\* C14
\* ------------------------------------------------------------------------

FileLabel == <<"F", "i", "l", "e", ":", " ">>

\* an entry as the history shows it: "File: <path>", then the content
\* between two fences, each on a line of its own
EntryShown(e) ==
    FileLabel \o e.path \o <<"\n">> \o Fence \o <<"\n">>
        \o TextOf(e.content) \o <<"\n">> \o Fence

\* the positions of text at which sub occurs
Occurrences(text, sub) ==
    {i \in 1..(Len(text) - Len(sub) + 1) : SubSeq(text, i, i + Len(sub) - 1) = sub}

\* the entries are shown in text from position from on, one after the other
RECURSIVE ShownInOrder(_, _, _)
ShownInOrder(text, entries, from) ==
    IF entries = <<>> THEN TRUE
    ELSE LET occ == {i \in Occurrences(text, EntryShown(entries[1])) : i >= from}
         IN  /\ occ # {}
             /\ ShownInOrder(text, Tail(entries),
                             Min(occ) + Len(EntryShown(entries[1])))

\* C14: while get_workspace_context runs for a /context or /# command the
\* chat history is untouched; when it has returned Success, also with zero
\* entries, exactly two messages are appended: a user message showing every
\* entry, in order, as "File: <path>" and the fenced content, and nothing
\* else under that label, then the fixed assistant acknowledgment; when it
\* has returned Failure nothing is appended.
C14_ContextAppendsTwoOrNothing ==
    [][ /\ (pc \in {"load", "resolve", "isfile", "walk"} \/ pc' = "load") =>
               messages' = messages
        /\ pc = "done" =>
               IF result.success
               THEN /\ Len(messages') = Len(messages) + 2
                    /\ SubSeq(messages', 1, Len(messages)) = messages
                    /\ messages'[Len(messages) + 1].role = "user"
                    /\ ShownInOrder(messages'[Len(messages) + 1].content,
                                    result.context, 1)
                    /\ Cardinality(Occurrences(messages'[Len(messages) + 1].content,
                                               FileLabel)) = Len(result.context)
                    /\ messages'[Len(messages) + 2] =
                           Message("assistant", Acknowledgment)
               ELSE messages' = messages
      ]_vars

\* C14 witness: a /context command that found one file and a /# command that
\* found none have each added a user message and the acknowledgment.
C14_Witness ==
    /\ pc = "prompt"
    /\ Len(messages) = 5
    /\ messages[2].role = "user"
    /\ Occurrences(messages[2].content, FileLabel \o N_a_txt) # {}
    /\ messages[3] = Message("assistant", Acknowledgment)
    /\ messages[4].role = "user"
    /\ Occurrences(messages[4].content, FileLabel) = {}
    /\ messages[5] = Message("assistant", Acknowledgment)

\* ------------------------------------------------------------------------
\* C18
\* ------------------------------------------------------------------------

\* a line has been read in this step
LineRead == inputs_read' = inputs_read + 1

\* C18: /write <file> and /append <file> on a readable file activate the
\* edit mode; while it is active, a line that is /save or /cancel after
\* trimming resets it (inactive, empty buffer), whatever the write did, and
\* every other line, /exit and /quit included, is appended unmodified to the
\* buffer and changes neither the chat history nor the filesystem nor ends
\* the session; without a line read the mode is as it was.
C18_EditModeUntilSaveOrCancel ==
    [][ /\ (~file_edit_mode.active /\ LineRead /\ IsWrite(Strip(line'))) =>
               /\ file_edit_mode'.active
               /\ file_edit_mode'.content = <<>>
        /\ (~file_edit_mode.active /\ LineRead /\ IsAppend(Strip(line'))
               /\ ReadFile(fs, cwd, Strip(SubSeq(Strip(line'), 9, Len(Strip(line'))))).success) =>
               file_edit_mode'.active
        /\ (file_edit_mode.active /\ ~LineRead) =>
               file_edit_mode' = file_edit_mode
        /\ (file_edit_mode.active /\ LineRead) =>
               /\ messages' = messages
               /\ pc' = "prompt"
               /\ IF Strip(line') \in {C_save, C_cancel}
                  THEN file_edit_mode' = NoEdit
                  ELSE /\ file_edit_mode' =
                              [file_edit_mode EXCEPT !.content = Append(@, line')]
                       /\ fs' = fs
      ]_vars

\* C18 witness: in edit mode, /exit and then another line have been typed
\* and are the buffer, in that order.
C18_Witness ==
    /\ pc = "prompt"
    /\ file_edit_mode.active
    /\ Len(file_edit_mode.content) = 2
    /\ file_edit_mode.content[1] = C_exit
    /\ file_edit_mode.content[2] # C_exit

====
